---------------------------- MODULE Spec2Model ----------------------------
(***************************************************************************)
(* A model of the HoYoLAB embed fixer (src/main.py): the identifier        *)
(* extractor, the four upstream gateway operations, the embed renderer and *)
(* the three request handlers (/post, /sh, /q) run as concurrent tasks.    *)
(*                                                                         *)
(* Strings are sequences of tokens.  A token is one character, or a run of *)
(* characters that the code only ever treats as a unit ("hoyolab.com",     *)
(* "/article/", an HTML entity such as "&amp;").  Python values are tagged *)
(* records [kind, val] so that None, strings, dicts and lists can be told  *)
(* apart the way the interpreter tells them apart.                         *)
(***************************************************************************)
EXTENDS Naturals, Sequences, FiniteSets, TLC

VARIABLES
    input,        \* argument(s) of the pure function / gateway call under test
    output,       \* its return value (PyUnset before the call)
    flow,         \* per request: "A" (/post), "B" (/sh) or "C" (/q)
    param,        \* per request: post_id, redirect or q (a string)
    lang,         \* per request: the lang query parameter
    pc,           \* per request: the await the task is suspended at
    final_url,    \* per request: local final_url of /sh and /q
    extracted,    \* per request: local extracted of /sh and /q
    resolved,     \* per request: value returned by get_actual_post_id
    post_id,      \* per request: local actual_id (/post) or post_id (/sh, /q)
    req_headers,  \* per request: object the local req_headers refers to
    heap,         \* header dictionaries by object id; object 0 is HEADERS
    calls,        \* per request: the upstream calls made, with their answers
    response      \* per request: the HTTP response returned

vars == <<input, output, flow, param, lang, pc, final_url, extracted, resolved,
          post_id, req_headers, heap, calls, response>>

pureVars == <<input, output>>
taskVars == <<flow, param, lang, pc, final_url, extracted, resolved, post_id,
              req_headers, heap, calls, response>>

(***************************************************************************)
(* Bounds of the model.                                                    *)
(***************************************************************************)
MaxUrlLen == 5      \* longest URL (in tokens) given to extract_post_id
MaxDescLen == 4     \* longest description (in tokens) given to the renderer
NumRequests == 2    \* concurrently handled requests

(***************************************************************************)
(* Python values.                                                          *)
(***************************************************************************)
PyUnset == [kind |-> "unset"]
PyNone == [kind |-> "None"]
PyRaise == [kind |-> "raise"]
PyStr(s) == [kind |-> "str", val |-> s]
PyInt(n) == [kind |-> "int", val |-> n]
PyBool(b) == [kind |-> "bool", val |-> b]
PyDict(f) == [kind |-> "dict", val |-> f]
PyList(l) == [kind |-> "list", val |-> l]
EmptyDict == PyDict(<<>>)

\* bool(v): None, "", 0, False, {} and [] are falsy.
Truthy(v) ==
    CASE v.kind = "None" -> FALSE
      [] v.kind = "str" -> v.val # <<>>
      [] v.kind = "int" -> v.val # 0
      [] v.kind = "bool" -> v.val
      [] v.kind = "dict" -> DOMAIN v.val # {}
      [] v.kind = "list" -> v.val # <<>>
      [] OTHER -> FALSE

\* d.get(key, default); on a non-dict it raises AttributeError.
DictGet(d, key, default) ==
    IF d.kind # "dict" THEN PyRaise
    ELSE IF key \in DOMAIN d.val THEN d.val[key] ELSE default

\* d[key]; KeyError when the key is missing, TypeError on a non-subscriptable.
DictIndex(d, key) ==
    IF d.kind # "dict" THEN PyRaise
    ELSE IF key \in DOMAIN d.val THEN d.val[key] ELSE PyRaise

SeqsUpTo(alphabet, n) == UNION {[1..k -> alphabet] : k \in 0..n}

(***************************************************************************)
(* Identifier extractor.                                                   *)
(***************************************************************************)
Digits == {"1", "2"}
UrlTokens == {"m.", "hoyolab.com", "/#", "/article/", "/article_pre/", "x"} \cup Digits

\* The literal part of each pattern and its flag, in the order of the list.
patterns == <<
    [lit |-> <<"hoyolab.com", "/article_pre/">>, is_pre_post |-> TRUE],
    [lit |-> <<"hoyolab.com", "/article/">>, is_pre_post |-> FALSE],
    [lit |-> <<"hoyolab.com", "/#", "/article/">>, is_pre_post |-> FALSE],
    [lit |-> <<"m.", "hoyolab.com", "/#", "/article/">>, is_pre_post |-> FALSE] >>

\* The pattern lit(\d+) matches url at position i.
MatchesAt(lit, url, i) ==
    /\ i + Len(lit) <= Len(url)
    /\ SubSeq(url, i, i + Len(lit) - 1) = lit
    /\ url[i + Len(lit)] \in Digits

\* The greedy run of digits of url starting at position i.
RECURSIVE DigitRun(_, _)
DigitRun(url, i) ==
    IF i > Len(url) \/ url[i] \notin Digits THEN <<>>
    ELSE <<url[i]>> \o DigitRun(url, i + 1)

\* re.search(lit(\d+), url): None, or group(1) of the leftmost match.
ReSearch(lit, url) ==
    LET starts == {i \in 1..Len(url) : MatchesAt(lit, url, i)}
    IN  IF starts = {} THEN PyNone
        ELSE LET i == CHOOSE j \in starts : \A k \in starts : j <= k
             IN  PyStr(DigitRun(url, i + Len(lit)))

PatternMatches(n, url) == ReSearch(patterns[n].lit, url) # PyNone

RECURSIVE TryPatterns(_, _)
TryPatterns(n, url) ==
    IF n > Len(patterns) THEN PyNone
    ELSE LET match == ReSearch(patterns[n].lit, url)
         IN  IF match # PyNone
             THEN PyDict(("id" :> match) @@
                         ("is_pre_post" :> PyBool(patterns[n].is_pre_post)))
             ELSE TryPatterns(n + 1, url)

\* A plausible slip: the loop starts at the second pattern.
extract_post_id_SkipFirst(url) == TryPatterns(2, url)

extract_post_id(url) == TryPatterns(1, url)

(***************************************************************************)
(* Embed renderer.                                                         *)
(***************************************************************************)
\* html.escape(s) with quote=True, one token at a time.
EscapeToken(t) ==
    CASE t = "&" -> "&amp;"
      [] t = "<" -> "&lt;"
      [] t = ">" -> "&gt;"
      [] t = "\"" -> "&quot;"
      [] t = "'" -> "&#x27;"
      [] OTHER -> t

html_escape(v) ==
    IF v.kind # "str" THEN PyRaise
    ELSE PyStr([i \in 1..Len(v.val) |-> EscapeToken(v.val[i])])

\* re.sub(r"<[^>]*>", "", s): from each "<" that has a ">" after it, the text up
\* to and including the nearest such ">" is removed.
RECURSIVE StripFrom(_, _)
StripFrom(s, i) ==
    IF i > Len(s) THEN <<>>
    ELSE LET closers == {j \in (i + 1)..Len(s) : s[j] = ">"}
         IN  IF s[i] = "<" /\ closers # {}
             THEN StripFrom(s, 1 + (CHOOSE j \in closers : \A k \in closers : j <= k))
             ELSE <<s[i]>> \o StripFrom(s, i + 1)

re_sub_tags(v) == IF v.kind # "str" THEN PyRaise ELSE PyStr(StripFrom(v.val, 1))

DefaultColor == PyStr(<<"#25A0E7">>)
VideoViewType == 5
GalleryMax == 4

\* images[0]
ListFirst(l) == IF l.kind = "list" /\ l.val # <<>> THEN l.val[1] ELSE PyRaise

\* images[:4]
ListHead(l, n) == IF Len(l) <= n THEN l ELSE SubSeq(l, 1, n)

Slot(name, ctx, v) == [slot |-> name, ctx |-> ctx, text |-> v.val]

AnyRaise(values) == \E i \in 1..Len(values) : values[i] = PyRaise

generate_embed_html(post, post_url) ==
    LET p == DictIndex(post, "post")
        u == DictIndex(post, "user")
        video == DictGet(post, "video", PyNone)
        game == DictGet(post, "game", EmptyDict)
        has_cover == DictGet(p, "has_cover", PyNone)
        images == IF Truthy(has_cover) THEN DictGet(post, "cover_list", PyNone)
                  ELSE DictGet(post, "image_list", PyNone)
        first_image == IF Truthy(images) THEN DictIndex(ListFirst(images), "url")
                       ELSE PyStr(<<>>)
        is_video == DictGet(p, "view_type", PyNone) = PyInt(VideoViewType) /\ Truthy(video)
        main_image == IF is_video THEN DictGet(video, "cover", first_image)
                      ELSE first_image
        subject == html_escape(DictGet(p, "subject", PyStr(<<>>)))
        clean_desc == html_escape(re_sub_tags(DictGet(p, "desc", PyStr(<<>>))))
        nickname == html_escape(DictGet(u, "nickname", PyStr(<<>>)))
        theme_color == DictGet(game, "color", DefaultColor)
        shown == IF Truthy(images) THEN ListHead(images.val, GalleryMax) ELSE <<>>
        gallery == [i \in 1..Len(shown) |-> DictIndex(shown[i], "url")]
        avatar == DictIndex(u, "avatar_url")
        image_meta(name) == IF Truthy(main_image) THEN <<Slot(name, "attr", main_image)>>
                            ELSE <<>>
    IN  IF AnyRaise(<<p, u, has_cover, images, first_image, main_image, subject,
                      clean_desc, nickname, theme_color, avatar>> \o gallery)
        THEN PyRaise
        ELSE [kind |-> "html", slots |->
                 <<Slot("og:url", "attr", post_url),
                   Slot("og:title", "attr", subject),
                   Slot("og:description", "attr", clean_desc)>>
                 \o image_meta("og:image")
                 \o <<Slot("twitter:title", "attr", subject),
                      Slot("twitter:description", "attr", clean_desc)>>
                 \o image_meta("twitter:image")
                 \o <<Slot("theme-color", "attr", theme_color),
                      Slot("author", "attr", nickname),
                      Slot("title", "text", subject),
                      Slot("redirect-btn background", "css", theme_color),
                      Slot("window.location.href", "script", post_url),
                      Slot("avatar src", "attr", avatar),
                      Slot("author name", "text", nickname),
                      Slot("h1", "text", subject),
                      Slot("description", "text", clean_desc)>>
                 \o [i \in 1..Len(gallery) |-> Slot("gallery src", "attr", gallery[i])]
                 \o <<Slot("redirect-btn href", "attr", post_url)>>]

\* Canonical post URL, f"https://www.hoyolab.com/article/{id}".
ArticleUrl(id) == PyStr(<<"https://www.hoyolab.com/article/">> \o id)

(***************************************************************************)
(* Upstream gateway.  An upstream answer is net = [transport, url, body]:  *)
(* transport "error" makes client.get raise; url is the final URL of the   *)
(* response; body is the parsed JSON value, or NotJson when resp.json()    *)
(* raises.                                                                 *)
(***************************************************************************)
NotJson == [kind |-> "notjson"]

\* The statements inside the try block, with PyRaise for a raised exception.
follow_redirects_try(url, net) ==
    IF net.transport = "error" THEN PyRaise ELSE PyStr(net.url)

\* The same operation without its except clause.
follow_redirects_NoExcept(url, net) == follow_redirects_try(url, net)

follow_redirects(url, net) ==
    LET r == follow_redirects_try(url, net)
    IN  IF r = PyRaise THEN PyStr(url) ELSE r

\* Percent-decoding of one token (urllib.parse.unquote).
UnquoteToken(t) ==
    CASE t = "%2Farticle%2F" -> "/article/"
      [] t = "%2Farticle_pre%2F" -> "/article_pre/"
      [] t = "%252Farticle%252F" -> "%2Farticle%2F"
      [] OTHER -> t

unquote(s) == [i \in 1..Len(s) |-> UnquoteToken(s[i])]

\* parse_qs(urlparse(final_url).query): the decoded values of the parameter url,
\* taken as the text after each "?url=" token; a blank value is dropped.
RECURSIVE QsUrlValues(_, _)
QsUrlValues(s, i) ==
    IF i > Len(s) THEN <<>>
    ELSE IF s[i] = "?url=" /\ i < Len(s)
         THEN <<unquote(SubSeq(s, i + 1, Len(s)))>>
         ELSE QsUrlValues(s, i + 1)

resolve_short_query_try(query_id, net) ==
    IF net.transport = "error" THEN PyRaise
    ELSE LET final == net.url
             qs_url == QsUrlValues(final, 1)
         IN  IF (\E i \in 1..Len(final) : final[i] = "social_sea_share/redirectUrl")
                /\ qs_url # <<>>
             THEN PyStr(unquote(qs_url[1]))
             ELSE PyStr(final)

resolve_short_query(query_id, net) ==
    LET r == resolve_short_query_try(query_id, net)
    IN  IF r = PyRaise THEN PyNone ELSE r

\* resp.json()
RespJson(net) ==
    IF net.transport = "error" \/ net.body = NotJson THEN PyRaise ELSE net.body

get_actual_post_id_try(pre_post_id, net) ==
    LET data == RespJson(net)
    IN  IF data = PyRaise THEN PyRaise
        ELSE DictGet(DictGet(data, "data", EmptyDict), "post_id", PyNone)

get_actual_post_id(pre_post_id, net) ==
    LET r == get_actual_post_id_try(pre_post_id, net)
    IN  IF r = PyRaise THEN PyNone ELSE r

\* data.get("retcode") != 0 (in Python False == 0 as well).
RetcodeNotZero(data) ==
    LET retcode == DictGet(data, "retcode", PyNone)
    IN  IF retcode = PyRaise THEN PyRaise
        ELSE PyBool(retcode # PyInt(0) /\ retcode # PyBool(FALSE))

fetch_post_data_try(id, net) ==
    LET data == RespJson(net)
        bad == RetcodeNotZero(data)
    IN  IF data = PyRaise \/ bad = PyRaise THEN PyRaise
        ELSE IF bad.val THEN PyNone
        ELSE DictIndex(DictIndex(data, "data"), "post")

fetch_post_data(id, net) ==
    LET r == fetch_post_data_try(id, net)
    IN  IF r = PyRaise THEN PyNone ELSE r

(***************************************************************************)
(* Request handlers.  Every request is one task; a task runs from one await *)
(* to the next in a single step, and the tasks' steps interleave freely.    *)
(***************************************************************************)
Requests == 1..NumRequests
Langs == {"en-us", "ja-jp"}

HEADERS == ("User-Agent" :> "HoYoLAB/4.3.0") @@ ("x-rpc-app_version" :> "4.3.0")
HeadersObject == 0
LongIdLength == 15

Id15 == [i \in 1..LongIdLength |-> "1"]
Id16 == [i \in 1..(LongIdLength + 1) |-> "2"]
RealId == <<"7">>

\* What a request can carry: the flow and its post_id, redirect or q.
RequestInputs == <<
    [flow |-> "A", param |-> Id15], [flow |-> "A", param |-> Id16],
    [flow |-> "B", param |-> <<>>], [flow |-> "B", param |-> <<"k">>],
    [flow |-> "C", param |-> <<>>], [flow |-> "C", param |-> <<"k">>] >>

ExternalUrl == <<"x">>
ArticleUrlTokens == <<"hoyolab.com", "/article/", "1">>
PrePostUrlTokens == <<"hoyolab.com", "/article_pre/", "2">>
ShareUrlTokens == <<"social_sea_share/redirectUrl", "?url=", "hoyolab.com", "%2Farticle%2F", "1">>

NetError == [transport |-> "error", url |-> <<>>, body |-> NotJson]
NetUrl(u) == [transport |-> "ok", url |-> u, body |-> NotJson]
NetBody(b) == [transport |-> "ok", url |-> <<>>, body |-> b]

GoodRecord ==
    PyDict(("post" :> PyDict(("subject" :> PyStr(<<"a">>)) @@ ("desc" :> PyStr(<<"a">>))))
           @@ ("user" :> PyDict(("nickname" :> PyStr(<<"a">>))
                                @@ ("avatar_url" :> PyStr(<<"a">>)))))
NoAvatarRecord ==
    PyDict(("post" :> EmptyDict) @@ ("user" :> PyDict("nickname" :> PyStr(<<"a">>))))

FetchBody(retcode, post) ==
    PyDict(("retcode" :> PyInt(retcode)) @@ ("data" :> PyDict("post" :> post)))
TranslateBody(id) == PyDict("data" :> PyDict("post_id" :> id))

\* The upstream answers the handlers are run against.
RedirectNets == {NetError, NetUrl(ExternalUrl), NetUrl(ArticleUrlTokens), NetUrl(PrePostUrlTokens)}
QueryNets == {NetError, NetUrl(ExternalUrl), NetUrl(ShareUrlTokens), NetUrl(PrePostUrlTokens)}
TranslateNets == {NetError, NetBody(TranslateBody(PyStr(<<>>))), NetBody(TranslateBody(PyStr(RealId)))}
FetchNets == {NetError, NetBody(FetchBody(0, GoodRecord)), NetBody(FetchBody(0, NoAvatarRecord))}

NoResponse == [kind |-> "none"]
JSONResponse(error, status_code) == [kind |-> "json", status |-> status_code, error |-> error]
RedirectResponse(url) == [kind |-> "redirect", status |-> 307, location |-> url]
HTMLResponse(content) == [kind |-> "html", status |-> 200, content |-> content]
\* An exception that leaves the handler: the framework answers 500.
UnhandledException == [kind |-> "exception", status |-> 500]

Call(op, arg, net) == [op |-> op, arg |-> arg, net |-> net, headers |-> <<>>]
FetchCall(arg, net, headers) == [op |-> "fetch_post_data", arg |-> arg, net |-> net, headers |-> headers]

\* req_headers = HEADERS  (no copy): the local name is bound to the shared object.
HeadersAlias(h, r) == [obj |-> HeadersObject, heap |-> h]

\* req_headers = HEADERS.copy(): a new object with the contents of HEADERS.
HeadersCopy(h, r) == [obj |-> r, heap |-> [h EXCEPT ![r] = h[HeadersObject]]]

DictSet(d, k, v) == [x \in DOMAIN d \cup {k} |-> IF x = k THEN v ELSE d[x]]

\* fetch_post_data up to its first await: the request headers are built.  The
\* caller reaches this code without suspending, so it is part of the caller's step.
FetchBegin(r) ==
    /\ LET c == HeadersCopy(heap, r)
       IN  /\ req_headers' = [req_headers EXCEPT ![r] = c.obj]
           /\ heap' = [c.heap EXCEPT ![c.obj] = DictSet(@, "x-rpc-language", lang[r])]
    /\ pc' = [pc EXCEPT ![r] = "send"]

\* get_actual_post_id up to its first await.
TranslateBegin(r) ==
    /\ pc' = [pc EXCEPT ![r] = "translate"]
    /\ UNCHANGED <<req_headers, heap>>

\* return <response>
Return(r, resp) ==
    /\ response' = [response EXCEPT ![r] = resp]
    /\ pc' = [pc EXCEPT ![r] = "done"]
    /\ UNCHANGED <<req_headers, heap>>

\* client.get(url, headers=req_headers), the rest of fetch_post_data, and the
\* handler's code after the call, which is the same in the three handlers.
FetchAndRender(r, net) ==
    LET post_data == fetch_post_data(post_id[r], net)
        html_content == generate_embed_html(post_data, ArticleUrl(post_id[r]))
    IN  /\ calls' = [calls EXCEPT ![r] =
                        Append(@, FetchCall(post_id[r], net, heap[req_headers[r]]))]
        /\ IF ~Truthy(post_data) THEN Return(r, JSONResponse("Failed to fetch post", 500))
           ELSE IF html_content = PyRaise THEN Return(r, UnhandledException)
           ELSE Return(r, HTMLResponse(html_content))
        /\ UNCHANGED <<flow, param, lang, final_url, extracted, resolved, post_id>>

\* ---- GET /post ----
\* handle_post up to its first await.
PostStart(r) ==
    /\ flow[r] = "A" /\ pc[r] = "start"
    /\ post_id' = [post_id EXCEPT ![r] = param[r]]
    /\ IF Len(param[r]) > LongIdLength THEN TranslateBegin(r) ELSE FetchBegin(r)
    /\ UNCHANGED <<flow, param, lang, final_url, extracted, resolved, calls, response>>

\* A stricter /post: a failed translation aborts the request, as in /sh and /q.
PostTranslate_HardFail(r) ==
    /\ flow[r] = "A" /\ pc[r] = "translate"
    /\ \E net \in TranslateNets :
         LET got == get_actual_post_id(post_id[r], net)
         IN  /\ resolved' = [resolved EXCEPT ![r] = got]
             /\ calls' = [calls EXCEPT ![r] = Append(@, Call("get_actual_post_id", post_id[r], net))]
             /\ IF Truthy(got)
                THEN /\ post_id' = [post_id EXCEPT ![r] = got.val]
                     /\ FetchBegin(r)
                     /\ UNCHANGED response
                ELSE /\ Return(r, JSONResponse("Failed to resolve pre-post ID", 500))
                     /\ UNCHANGED post_id
    /\ UNCHANGED <<flow, param, lang, final_url, extracted>>

\* resolved = await get_actual_post_id(post_id); if resolved: actual_id = resolved
PostTranslate(r) ==
    /\ flow[r] = "A" /\ pc[r] = "translate"
    /\ \E net \in TranslateNets :
         LET got == get_actual_post_id(post_id[r], net)
         IN  /\ resolved' = [resolved EXCEPT ![r] = got]
             /\ calls' = [calls EXCEPT ![r] = Append(@, Call("get_actual_post_id", post_id[r], net))]
             /\ post_id' = [post_id EXCEPT ![r] = IF Truthy(got) THEN got.val ELSE @]
    /\ FetchBegin(r)
    /\ UNCHANGED <<flow, param, lang, final_url, extracted, response>>

PostFetch(r) ==
    /\ flow[r] = "A" /\ pc[r] = "send"
    /\ \E net \in FetchNets : FetchAndRender(r, net)

\* ---- GET /sh and GET /q: the code after final_url is known ----
\* No early return for a URL that is no post: the handler goes on to the fetch.
AfterResolve_FetchAnyway(r, url) ==
    LET got == extract_post_id(url.val)
    IN  /\ final_url' = [final_url EXCEPT ![r] = url]
        /\ extracted' = [extracted EXCEPT ![r] = got]
        /\ post_id' = [post_id EXCEPT ![r] =
                          IF Truthy(got) THEN got.val["id"].val ELSE <<>>]
        /\ IF Truthy(got) /\ got.val["is_pre_post"].val
           THEN TranslateBegin(r) ELSE FetchBegin(r)
        /\ UNCHANGED response

\* The is_pre_post flag is not looked at: every extracted ID goes to the fetch.
AfterResolve_IgnoreFlag(r, url) ==
    LET got == extract_post_id(url.val)
    IN  /\ final_url' = [final_url EXCEPT ![r] = url]
        /\ extracted' = [extracted EXCEPT ![r] = got]
        /\ IF ~Truthy(got)
           THEN /\ Return(r, RedirectResponse(url.val))
                /\ UNCHANGED post_id
           ELSE /\ post_id' = [post_id EXCEPT ![r] = got.val["id"].val]
                /\ FetchBegin(r)
                /\ UNCHANGED response

\* extracted = extract_post_id(final_url) and the branch on it.
AfterResolve(r, url) ==
    LET got == extract_post_id(url.val)
    IN  /\ final_url' = [final_url EXCEPT ![r] = url]
        /\ extracted' = [extracted EXCEPT ![r] = got]
        /\ IF ~Truthy(got)
           THEN /\ Return(r, RedirectResponse(url.val))
                /\ UNCHANGED post_id
           ELSE /\ post_id' = [post_id EXCEPT ![r] = got.val["id"].val]
                /\ IF got.val["is_pre_post"].val
                   THEN TranslateBegin(r) ELSE FetchBegin(r)
                /\ UNCHANGED response

\* A lenient pre-post branch: a failed translation keeps the extracted ID.
AfterTranslate_Lenient(r, net) ==
    LET actual == get_actual_post_id(post_id[r], net)
    IN  /\ resolved' = [resolved EXCEPT ![r] = actual]
        /\ calls' = [calls EXCEPT ![r] = Append(@, Call("get_actual_post_id", post_id[r], net))]
        /\ post_id' = [post_id EXCEPT ![r] = IF Truthy(actual) THEN actual.val ELSE @]
        /\ FetchBegin(r)
        /\ UNCHANGED response

\* actual = await get_actual_post_id(post_id); if not actual: return 500
AfterTranslate(r, net) ==
    LET actual == get_actual_post_id(post_id[r], net)
    IN  /\ resolved' = [resolved EXCEPT ![r] = actual]
        /\ calls' = [calls EXCEPT ![r] = Append(@, Call("get_actual_post_id", post_id[r], net))]
        /\ IF ~Truthy(actual)
           THEN /\ Return(r, JSONResponse("Failed to resolve pre-post ID", 500))
                /\ UNCHANGED post_id
           ELSE /\ post_id' = [post_id EXCEPT ![r] = actual.val]
                /\ FetchBegin(r)
                /\ UNCHANGED response

\* ---- GET /sh ----
ShortLinkStart(r) ==
    /\ flow[r] = "B" /\ pc[r] = "start"
    /\ IF param[r] = <<>>
       THEN /\ Return(r, JSONResponse("Missing redirect param", 400))
            /\ UNCHANGED <<final_url, extracted, post_id, calls>>
       ELSE \E net \in RedirectNets :
              LET url == <<"https://hoyo.link/">> \o param[r]
              IN  /\ calls' = [calls EXCEPT ![r] = Append(@, Call("follow_redirects", url, net))]
                  /\ AfterResolve(r, follow_redirects(url, net))
    /\ UNCHANGED <<flow, param, lang, resolved>>

ShortLinkTranslate(r) ==
    /\ flow[r] = "B" /\ pc[r] = "translate"
    /\ \E net \in TranslateNets : AfterTranslate(r, net)
    /\ UNCHANGED <<flow, param, lang, final_url, extracted>>

ShortLinkFetch(r) ==
    /\ flow[r] = "B" /\ pc[r] = "send"
    /\ \E net \in FetchNets : FetchAndRender(r, net)

\* ---- GET /q ----
QueryLinkStart(r) ==
    /\ flow[r] = "C" /\ pc[r] = "start"
    /\ IF param[r] = <<>>
       THEN /\ Return(r, JSONResponse("Missing q param", 400))
            /\ UNCHANGED <<final_url, extracted, post_id, calls>>
       ELSE \E net \in QueryNets :
              LET url == resolve_short_query(param[r], net)
              IN  /\ calls' = [calls EXCEPT ![r] = Append(@, Call("resolve_short_query", param[r], net))]
                  /\ IF ~Truthy(url)
                     THEN /\ Return(r, JSONResponse("Failed to resolve short link", 500))
                          /\ final_url' = [final_url EXCEPT ![r] = url]
                          /\ UNCHANGED <<extracted, post_id>>
                     ELSE AfterResolve(r, url)
    /\ UNCHANGED <<flow, param, lang, resolved>>

QueryLinkTranslate(r) ==
    /\ flow[r] = "C" /\ pc[r] = "translate"
    /\ \E net \in TranslateNets : AfterTranslate(r, net)
    /\ UNCHANGED <<flow, param, lang, final_url, extracted>>

QueryLinkFetch(r) ==
    /\ flow[r] = "C" /\ pc[r] = "send"
    /\ \E net \in FetchNets : FetchAndRender(r, net)

(***************************************************************************)
(* The specification of the handlers.  Two symmetries keep the initial     *)
(* states apart: the handlers treat all requests alike, so the requests    *)
(* are numbered in the order of their inputs; and the code never looks     *)
(* into lang, so the first request's language is fixed.                    *)
(***************************************************************************)
PureIdle == input = PyUnset /\ output = PyUnset

Init ==
    /\ PureIdle
    /\ \E ins \in [Requests -> 1..Len(RequestInputs)] :
         /\ \A r \in Requests : r + 1 \in Requests => ins[r] <= ins[r + 1]
         /\ flow = [r \in Requests |-> RequestInputs[ins[r]].flow]
         /\ param = [r \in Requests |-> RequestInputs[ins[r]].param]
    /\ lang \in {l \in [Requests -> Langs] : l[1] = "en-us"}
    /\ pc = [r \in Requests |-> "start"]
    /\ final_url = [r \in Requests |-> PyUnset]
    /\ extracted = [r \in Requests |-> PyUnset]
    /\ resolved = [r \in Requests |-> PyUnset]
    /\ post_id = [r \in Requests |-> <<>>]
    /\ req_headers = [r \in Requests |-> HeadersObject]
    /\ heap = [o \in {HeadersObject} \cup Requests |-> IF o = HeadersObject THEN HEADERS ELSE <<>>]
    /\ calls = [r \in Requests |-> <<>>]
    /\ response = [r \in Requests |-> NoResponse]

Next ==
    \E r \in Requests :
        \/ PostStart(r) /\ UNCHANGED pureVars
        \/ PostTranslate(r) /\ UNCHANGED pureVars
        \/ PostFetch(r) /\ UNCHANGED pureVars
        \/ ShortLinkStart(r) /\ UNCHANGED pureVars
        \/ ShortLinkTranslate(r) /\ UNCHANGED pureVars
        \/ ShortLinkFetch(r) /\ UNCHANGED pureVars
        \/ QueryLinkStart(r) /\ UNCHANGED pureVars
        \/ QueryLinkTranslate(r) /\ UNCHANGED pureVars
        \/ QueryLinkFetch(r) /\ UNCHANGED pureVars

Spec == Init /\ [][Next]_vars

(***************************************************************************)
(* The pure functions and the gateway operations on their own: Init draws  *)
(* the arguments, one action applies the operation.                        *)
(***************************************************************************)
TaskIdle ==
    /\ flow = <<>> /\ param = <<>> /\ lang = <<>> /\ pc = <<>>
    /\ final_url = <<>> /\ extracted = <<>> /\ resolved = <<>> /\ post_id = <<>>
    /\ req_headers = <<>> /\ heap = <<>> /\ calls = <<>> /\ response = <<>>

\* ---- extract_post_id ----
InitExtract ==
    /\ input \in {PyStr(u) : u \in SeqsUpTo(UrlTokens, MaxUrlLen)}
    /\ output = PyUnset
    /\ TaskIdle

ExtractPostId ==
    /\ output = PyUnset
    /\ output' = extract_post_id(input.val)
    /\ UNCHANGED <<input, taskVars>>

NextExtract == ExtractPostId

SpecExtract == InitExtract /\ [][NextExtract]_vars

\* ---- the four gateway operations ----
GatewayUrls ==
    SeqsUpTo(UrlTokens, 2)
    \cup {ArticleUrlTokens, PrePostUrlTokens, ShareUrlTokens,
          <<"social_sea_share/redirectUrl">>,
          <<"social_sea_share/redirectUrl", "?url=">>,
          <<"x", "?url=", "hoyolab.com", "%2Farticle%2F", "1">>,
          <<"social_sea_share/redirectUrl", "?url=", "hoyolab.com", "%252Farticle%252F", "1">>}

TranslateBodies ==
    {NotJson, PyList(<<>>), EmptyDict, PyDict("data" :> PyNone), PyDict("data" :> EmptyDict),
     PyDict("data" :> PyStr(<<"x">>)), TranslateBody(PyNone), TranslateBody(PyStr(<<>>)),
     TranslateBody(PyStr(RealId))}

Retcodes == {0, 1, 2}
FetchBodies ==
    {NotJson, PyList(<<>>), EmptyDict, PyDict("data" :> PyDict("post" :> GoodRecord))}
    \cup {PyDict("retcode" :> PyInt(c)) : c \in Retcodes}
    \cup {PyDict(("retcode" :> PyInt(c)) @@ ("data" :> d)) : c \in Retcodes, d \in {PyNone, EmptyDict}}
    \cup {FetchBody(c, post) : c \in Retcodes, post \in {PyNone, EmptyDict, GoodRecord, NoAvatarRecord}}

GatewayInputs ==
    {[op |-> "follow_redirects", arg |-> <<"https://hoyo.link/", "k">>, net |-> n] :
        n \in {NetError} \cup {NetUrl(u) : u \in GatewayUrls}}
    \cup {[op |-> "resolve_short_query", arg |-> <<"k">>, net |-> n] :
        n \in {NetError} \cup {NetUrl(u) : u \in GatewayUrls}}
    \cup {[op |-> "get_actual_post_id", arg |-> Id16, net |-> n] :
        n \in {NetError} \cup {NetBody(b) : b \in TranslateBodies}}
    \cup {[op |-> "fetch_post_data", arg |-> RealId, net |-> n] :
        n \in {NetError} \cup {NetBody(b) : b \in FetchBodies}}

InitGateway ==
    /\ input \in GatewayInputs
    /\ output = PyUnset
    /\ TaskIdle

CallFollowRedirects ==
    /\ output = PyUnset /\ input.op = "follow_redirects"
    /\ output' = follow_redirects(input.arg, input.net)
    /\ UNCHANGED <<input, taskVars>>

CallResolveShortQuery ==
    /\ output = PyUnset /\ input.op = "resolve_short_query"
    /\ output' = resolve_short_query(input.arg, input.net)
    /\ UNCHANGED <<input, taskVars>>

CallGetActualPostId ==
    /\ output = PyUnset /\ input.op = "get_actual_post_id"
    /\ output' = get_actual_post_id(input.arg, input.net)
    /\ UNCHANGED <<input, taskVars>>

CallFetchPostData ==
    /\ output = PyUnset /\ input.op = "fetch_post_data"
    /\ output' = fetch_post_data(input.arg, input.net)
    /\ UNCHANGED <<input, taskVars>>

NextGateway ==
    \/ CallFollowRedirects
    \/ CallResolveShortQuery
    \/ CallGetActualPostId
    \/ CallFetchPostData

SpecGateway == InitGateway /\ [][NextGateway]_vars

\* ---- generate_embed_html ----
\* A key of a dict that the record may lack: PyUnset stands for "no such key".
Opt(key, v) == IF v = PyUnset THEN <<>> ELSE key :> v

MkPost(subject, desc, has_cover, view_type, cover_list, image_list, nickname, avatar_url, video, game) ==
    PyDict(("post" :> PyDict(Opt("subject", subject) @@ Opt("desc", desc)
                             @@ Opt("has_cover", has_cover) @@ Opt("view_type", view_type)))
           @@ ("user" :> PyDict(Opt("nickname", nickname) @@ Opt("avatar_url", avatar_url)))
           @@ Opt("cover_list", cover_list) @@ Opt("image_list", image_list)
           @@ Opt("video", video) @@ Opt("game", game))

Image(u) == PyDict("url" :> PyStr(u))
Hostile == <<"\"", ">", "<", "a">>
Plain == <<"a">>

DescTokens == {"a", "b", "/", " ", "<", ">", "&"}
SpecExample == <<"a", " ", "<", "b", ">", "bold", "<", "/", "b", ">", "&", "c">>
ScriptExample == <<"<", "script", ">", "alert(1)", "<", "/", "script", ">">>

\* Records that differ in which optional fields they carry.
ShapeInputs ==
    {[post |-> MkPost(subject, PyStr(Plain), has_cover, view_type, cover_list, image_list,
                      nickname, avatar_url, video, game),
      post_url |-> ArticleUrl(RealId)] :
        subject \in {PyUnset, PyStr(Hostile)},
        has_cover \in {PyUnset, PyBool(TRUE), PyBool(FALSE)},
        view_type \in {PyUnset, PyInt(VideoViewType), PyInt(1)},
        cover_list \in {PyUnset, PyList(<<>>), PyList(<<Image(Plain)>>)},
        image_list \in {PyUnset, PyList(<<Image(Hostile)>>),
                        PyList([i \in 1..(GalleryMax + 1) |-> Image(Plain)])},
        nickname \in {PyUnset, PyStr(Hostile)},
        avatar_url \in {PyUnset, PyStr(Plain), PyStr(Hostile)},
        video \in {PyUnset, EmptyDict, PyDict("cover" :> PyStr(Plain))},
        game \in {PyUnset, PyDict("color" :> PyStr(<<"#FF0000">>))}}

\* Records that differ in their description only.
DescInputs ==
    {[post |-> MkPost(PyStr(Plain), desc, PyUnset, PyUnset, PyUnset, PyUnset,
                      PyStr(Plain), PyStr(Plain), PyUnset, PyUnset),
      post_url |-> ArticleUrl(RealId)] :
        desc \in {PyUnset, PyStr(SpecExample), PyStr(ScriptExample)}
                 \cup {PyStr(d) : d \in SeqsUpTo(DescTokens, MaxDescLen)}}

InitRender ==
    /\ input \in ShapeInputs \cup DescInputs
    /\ output = PyUnset
    /\ TaskIdle

GenerateEmbedHtml ==
    /\ output = PyUnset
    /\ output' = generate_embed_html(input.post, input.post_url)
    /\ UNCHANGED <<input, taskVars>>

NextRender == GenerateEmbedHtml

SpecRender == InitRender /\ [][NextRender]_vars

(***************************************************************************)
(* Properties of the handlers (specification Spec).                        *)
(***************************************************************************)
CallsOf(r, op) == {i \in 1..Len(calls[r]) : calls[r][i].op = op}
FetchCalls(r) == CallsOf(r, "fetch_post_data")
TranslateCalls(r) == CallsOf(r, "get_actual_post_id")

\* The request's identifier counts as a pre-post ID: /post was given more than 15
\* characters, or /sh and /q resolved to a URL that extract_post_id flags.
PrePostInput(r) ==
    IF flow[r] = "A" THEN Len(param[r]) > LongIdLength
    ELSE Truthy(extracted[r]) /\ extracted[r].val["is_pre_post"].val

TranslationFailed(r) == resolved[r] # PyUnset /\ ~Truthy(resolved[r])

\* C1: in /sh and /q, when the resolved URL is a pre-post URL and
\* get_actual_post_id fails, the request ends with a 500 error and
\* fetch_post_data is never called for it.
C1_HardFailure ==
    \A r \in Requests :
        (flow[r] \in {"B", "C"} /\ PrePostInput(r) /\ TranslationFailed(r))
        => /\ pc[r] = "done"
           /\ response[r] = JSONResponse("Failed to resolve pre-post ID", 500)
           /\ FetchCalls(r) = {}

C1_Witness ==
    \E r \in Requests :
        /\ flow[r] = "C" /\ PrePostInput(r) /\ resolved[r] = PyNone
        /\ response[r].status = 500

\* C2: in /post, an ID of more than 15 characters whose translation fails does
\* not abort the request: fetch_post_data is called exactly once, with the
\* original ID; a successful translation puts the translated ID in its place;
\* an ID of at most 15 characters is never submitted to get_actual_post_id.
C2_FlowADegrade ==
    \A r \in Requests :
        flow[r] = "A" =>
            /\ Len(param[r]) <= LongIdLength => TranslateCalls(r) = {}
            /\ Cardinality(FetchCalls(r)) <= 1
            /\ TranslationFailed(r) => pc[r] \in {"send", "done"} /\ post_id[r] = param[r]
            /\ pc[r] = "done" =>
                 /\ Cardinality(FetchCalls(r)) = 1
                 /\ \A i \in FetchCalls(r) :
                      calls[r][i].arg = IF Truthy(resolved[r]) THEN resolved[r].val ELSE param[r]

C2_Witness ==
    \E r \in Requests :
        /\ flow[r] = "A" /\ Len(param[r]) > LongIdLength /\ resolved[r] = PyNone
        /\ pc[r] = "done"
        /\ \E i \in FetchCalls(r) : calls[r][i].arg = param[r]

\* C3: in /sh and /q, when extract_post_id finds no match in the resolved URL,
\* the request ends with a redirect to that URL and the resolution call is the
\* only upstream call it ever made.
C3_ExternalRedirect ==
    \A r \in Requests :
        (/\ flow[r] \in {"B", "C"}
         /\ Truthy(final_url[r])
         /\ extracted[r] = PyNone)
        => /\ pc[r] = "done"
           /\ response[r] = RedirectResponse(final_url[r].val)
           /\ Len(calls[r]) = 1
           /\ TranslateCalls(r) = {} /\ FetchCalls(r) = {}

C3_Witness ==
    \E r \in Requests :
        /\ flow[r] = "B" /\ final_url[r] = PyStr(ExternalUrl)
        /\ response[r].kind = "redirect" /\ Len(calls[r]) = 1

\* C4 as stated: in every flow a pre-post ID is translated before
\* fetch_post_data is called, and get_actual_post_id is called at most once.
C4_Original ==
    \A r \in Requests :
        /\ Cardinality(TranslateCalls(r)) <= 1
        /\ \A i \in FetchCalls(r) :
             PrePostInput(r) => Truthy(resolved[r]) /\ calls[r][i].arg = resolved[r].val

\* C4 as amended: in /sh and /q a pre-post ID is always translated before
\* fetch_post_data is called; in /post an ID of more than 15 characters reaches
\* fetch_post_data untranslated exactly when its translation failed; in every flow
\* get_actual_post_id is called at most once, and before the fetch.
C4_TranslatedBeforeFetch ==
    \A r \in Requests :
        /\ Cardinality(TranslateCalls(r)) <= 1
        /\ \A i \in FetchCalls(r) :
             /\ \A j \in TranslateCalls(r) : j < i
             /\ PrePostInput(r) =>
                  IF flow[r] = "A" /\ TranslationFailed(r)
                  THEN calls[r][i].arg = param[r]
                  ELSE Truthy(resolved[r]) /\ calls[r][i].arg = resolved[r].val

C4_Witness ==
    \E r \in Requests :
        /\ flow[r] = "B" /\ PrePostInput(r)
        /\ \E i \in FetchCalls(r) : calls[r][i].arg = RealId

\* The upstream answers a request received, in order.
Answers(r) == [i \in 1..Len(calls[r]) |-> calls[r][i].net]

\* C10: under every interleaving, HEADERS is never changed, the headers sent
\* by fetch_post_data carry the request's own lang, and two requests with the
\* same parameters that received the same answers made the same calls and
\* returned the same response.
C10_NoInterference ==
    /\ heap[HeadersObject] = HEADERS
    /\ \A r \in Requests : \A i \in FetchCalls(r) :
         calls[r][i].headers = DictSet(HEADERS, "x-rpc-language", lang[r])
    /\ \A r1, r2 \in Requests :
         (/\ pc[r1] = "done" /\ pc[r2] = "done"
          /\ flow[r1] = flow[r2] /\ param[r1] = param[r2] /\ lang[r1] = lang[r2]
          /\ Answers(r1) = Answers(r2))
         => calls[r1] = calls[r2] /\ response[r1] = response[r2]

C10_Witness ==
    \E r1, r2 \in Requests :
        /\ lang[r1] # lang[r2]
        /\ pc[r1] = "done" /\ FetchCalls(r1) # {}
        /\ pc[r2] = "send" /\ req_headers[r2] # req_headers[r1]

(***************************************************************************)
(* Properties of the gateway (specification SpecGateway).                  *)
(***************************************************************************)
\* The JSON body is an object that lacks the field the operation returns.
MissingField(body, field) ==
    /\ body.kind = "dict"
    /\ \/ "data" \notin DOMAIN body.val
       \/ /\ body.val["data"].kind = "dict"
          /\ field \notin DOMAIN body.val["data"].val

\* C7: no exception leaves a gateway operation: on a transport failure
\* follow_redirects returns its argument and the three others return None;
\* get_actual_post_id and fetch_post_data return None on a body that is not
\* JSON or lacks the field; fetch_post_data returns None when retcode is not 0.
C7_GatewaySwallows ==
    output # PyUnset =>
        /\ output # PyRaise
        /\ input.net.transport = "error" =>
             output = IF input.op = "follow_redirects" THEN PyStr(input.arg) ELSE PyNone
        /\ (/\ input.op \in {"get_actual_post_id", "fetch_post_data"}
            /\ input.net.body = NotJson) => output = PyNone
        /\ (/\ input.op = "get_actual_post_id"
            /\ MissingField(input.net.body, "post_id")) => output = PyNone
        /\ (/\ input.op = "fetch_post_data"
            /\ MissingField(input.net.body, "post")) => output = PyNone
        /\ (/\ input.op = "fetch_post_data"
            /\ input.net.body.kind = "dict"
            /\ "retcode" \in DOMAIN input.net.body.val
            /\ input.net.body.val["retcode"] # PyInt(0)) => output = PyNone

C7_Witness ==
    /\ input.op = "follow_redirects" /\ input.net.transport = "error"
    /\ output = PyStr(input.arg)

(***************************************************************************)
(* Properties of extract_post_id (specification SpecExtract).              *)
(***************************************************************************)
MatchingPatterns(url) == {n \in 1..Len(patterns) : PatternMatches(n, url)}

\* The result is that of the first pattern, in the order article_pre, article,
\* #/article, mobile #/article, that matches; only article_pre sets the flag.
FirstMatchResult ==
    LET M == MatchingPatterns(input.val)
    IN  IF M = {} THEN output = PyNone
        ELSE LET n == CHOOSE m \in M : \A k \in M : m <= k
             IN  output = PyDict(("id" :> ReSearch(patterns[n].lit, input.val))
                                 @@ ("is_pre_post" :> PyBool(n = 1)))

\* C8 as stated: at most one of the four patterns matches the input, and the
\* result is that of the first matching pattern, or no match.
C8_Original ==
    output # PyUnset =>
        Cardinality(MatchingPatterns(input.val)) <= 1 /\ FirstMatchResult

\* C8 as amended: the result is that of the first matching pattern in the fixed
\* order, or no match; the patterns are not mutually exclusive: whatever the
\* mobile pattern matches, the #/article pattern matches too.
C8_FirstMatchWins ==
    output # PyUnset =>
        /\ FirstMatchResult
        /\ 4 \in MatchingPatterns(input.val) => 3 \in MatchingPatterns(input.val)

C8_Witness ==
    /\ output # PyUnset /\ output # PyNone
    /\ Cardinality(MatchingPatterns(input.val)) >= 2

(***************************************************************************)
(* Properties of generate_embed_html (specification SpecRender).           *)
(***************************************************************************)
Rendered == output # PyUnset

\* C5: every value interpolated into the document is HTML-escaped: no slot of
\* the document holds a raw double quote, "<" or ">".
C5_AllInterpolatedEscaped ==
    (Rendered /\ output.kind = "html") =>
        \A i \in 1..Len(output.slots) :
            \A k \in 1..Len(output.slots[i].text) :
                output.slots[i].text[k] \notin {"\"", "<", ">"}

HasKey(d, key) == key \in DOMAIN d.val
SlotsNamed(doc, name) == {i \in 1..Len(doc.slots) : doc.slots[i].slot = name}

\* C6: generate_embed_html returns a document whichever optional fields are
\* missing; without video, game and images the document has no og:image and no
\* twitter:image tag and its accent color is #25A0E7.
C6_RenderTotal ==
    Rendered =>
        /\ output.kind = "html"
        /\ (/\ ~HasKey(input.post, "video") /\ ~HasKey(input.post, "game")
            /\ ~HasKey(input.post, "cover_list") /\ ~HasKey(input.post, "image_list"))
           => /\ SlotsNamed(output, "og:image") = {}
              /\ SlotsNamed(output, "twitter:image") = {}
              /\ \A i \in SlotsNamed(output, "theme-color") :
                   output.slots[i].text = DefaultColor.val

\* HTML markup: "<" or "</" followed by a letter opens a tag, which runs to the
\* next ">".  Any other "<", and any ">" outside a tag, is literal text.
TagNames == {"a", "b", "script"}
TagOpensAt(s, i) ==
    /\ s[i] = "<"
    /\ \/ i + 1 <= Len(s) /\ s[i + 1] \in TagNames
       \/ i + 2 <= Len(s) /\ s[i + 1] = "/" /\ s[i + 2] \in TagNames
    /\ \E j \in (i + 1)..Len(s) : s[j] = ">"

RECURSIVE RemoveMarkup(_, _)
RemoveMarkup(s, i) ==
    IF i > Len(s) THEN <<>>
    ELSE IF TagOpensAt(s, i)
         THEN LET closers == {j \in (i + 1)..Len(s) : s[j] = ">"}
              IN  RemoveMarkup(s, 1 + (CHOOSE j \in closers : \A k \in closers : j <= k))
         ELSE <<s[i]>> \o RemoveMarkup(s, i + 1)

\* C9: the description is stripped of markup and then escaped: tags go, and the
\* literal "<", ">" and "&" that are not markup stay, as escaped text.
C9_LiteralsPreserved ==
    (Rendered /\ output.kind = "html" /\ HasKey(input.post.val["post"], "desc")) =>
        LET desc == input.post.val["post"].val["desc"].val
        IN  \A i \in SlotsNamed(output, "description") :
                output.slots[i].text = [k \in 1..Len(RemoveMarkup(desc, 1)) |->
                                           EscapeToken(RemoveMarkup(desc, 1)[k])]

=============================================================================
